---- MODULE Spec2Model ----
(***************************************************************************)
(* Model of GnLBuildCred.py: MPIN/TOTP login (initialize_api), the two     *)
(* market-data fetchers with their retry-and-reauthenticate loop           *)
(* (fetch_post_data, fetch_pcr_volume) and the __main__ orchestrator that  *)
(* walks the endpoint/expiry/datatype catalog and writes one CSV file.     *)
(*                                                                         *)
(* The program is single threaded; pc is its position.  The login server   *)
(* and the market-data server are the environment: every request draws     *)
(* its response from LoginResponses / DataResponses.                       *)
(***************************************************************************)
EXTENDS Integers, Sequences, FiniteSets, TLC

(* ------------------------------ bounds --------------------------------- *)
\* largest data array a mocked server returns
MaxRows == 2
\* fetcher calls of one run in which the data server may deviate from its
\* default answer (in such a call every request may be answered anyhow)
MaxFaults == 1
\* largest retries argument tried when a fetcher is called directly
MaxRetries == 3

(* ------------------------- program constants --------------------------- *)
\* def fetch_post_data(..., retries=2, delay=2) / fetch_pcr_volume(..., retries=2, delay=2)
DefaultRetries == 2
DefaultDelay == 2

\* time.sleep(1) after every fetch call of __main__
PauseSecs == 1

\* the four os.getenv names validated by initialize_api
Credentials == {"API_KEY", "USER_NAME", "MPIN", "TOTP_SECRET"}

\* endpoints = {...}: a dict, iterated in insertion order
endpoints == <<"gainersLosers", "OIBuildup">>
data_types(endpoint) ==
    IF endpoint = "gainersLosers"
    THEN <<"PercOIGainers", "PercOILosers", "PercPriceGainers", "PercPriceLosers">>
    ELSE <<"Long Built Up", "Short Built Up", "Short Covering", "Long Unwinding">>
expiry_types == <<"NEAR", "NEXT", "FAR">>

(* --------------------------- the environment --------------------------- *)
\* What requests.post(login url) and the three lines after it can meet:
\*   kind "exc"  - the request itself raises (connection failure, timeout)
\*   kind "resp" - a response with an HTTP status code, a body that parses
\*                 as JSON or not, the body's status flag and data.jwtToken
\*                 (0 = absent or empty)
\* A body that carries a token carries a fresh one: the server never issues
\* the same JWT twice, the n-th login request is offered token n.
LoginResponses(fresh) ==
    {[kind |-> "exc", code |-> 0, json |-> FALSE, status |-> FALSE, token |-> 0]}
    \cup {[kind |-> "resp", code |-> c, json |-> FALSE, status |-> FALSE, token |-> 0] :
             c \in {200, 401}}
    \cup {[kind |-> "resp", code |-> c, json |-> TRUE, status |-> s, token |-> t] :
             c \in {200, 401}, s \in BOOLEAN, t \in {0, fresh}}

\* What requests.post/get(data url) can meet: as above; n is the length of
\* the body's data array (empty, one record or MaxRows records), -1 when the
\* body has no "data" key.
DataResponses ==
    {[kind |-> "exc", code |-> 0, json |-> FALSE, status |-> FALSE, n |-> -1]}
    \cup {[kind |-> "resp", code |-> c, json |-> FALSE, status |-> FALSE, n |-> -1] :
             c \in {200, 403, 500}}
    \cup {[kind |-> "resp", code |-> c, json |-> TRUE, status |-> FALSE, n |-> -1] :
             c \in {403, 500}}
    \cup {[kind |-> "resp", code |-> 200, json |-> TRUE, status |-> s, n |-> n] :
             s \in BOOLEAN, n \in {-1, 0, 1, MaxRows}}

\* the answer a mocked server gives to every data request it does not fault
DefaultResponse(d) ==
    [kind |-> "resp", code |-> 200, json |-> TRUE, status |-> TRUE,
     n |-> IF d = "rows" THEN 1 ELSE 0]

(* ------------------------------- state --------------------------------- *)
VARIABLES
    env,        \* os.getenv: credential name -> present and non-empty
    totpValid,  \* pyotp.TOTP(totp_secret).now() does not raise
    srvDefault, \* "rows" or "empty": the data server's default answer
    faultsLeft, \* fetcher calls that may still deviate from the default
    faulted,    \* the running fetcher call has deviated from the default
    pc,         \* position of the single thread of control
    caller,     \* who called initialize_api: "main" or "fetch"
    ret,        \* value returned by initialize_api (access_token; 0 = none)
    api_obj,    \* __main__'s api_obj: its access_token, 0 = not bound yet
    ei, xi, di, \* positions of the three nested for loops of __main__
    df,         \* __main__'s df: the DataFrame the last fetch returned
    all_data,   \* __main__'s all_data: list of DataFrames
    file,       \* AngelMarketData.csv as this run leaves it: written or not, rows
    frame,      \* locals of the running fetcher call
    lastIssued, \* token of the most recent successful login response
    lastLogin,  \* history: what the most recent login request met
    loginReqs,  \* login requests sent so far
    dataReqs,   \* data requests sent so far
    pauses,     \* seconds __main__ has spent in its time.sleep(1) pacing pauses
    writes,     \* number of to_csv calls
    calls,      \* history: the fetcher invocations, in order
    results,    \* history: row count returned by each finished invocation
    callLog,    \* history: request/sleep/login events of the fetcher call
                \* that runs or has just returned
    twin        \* the finished fetch_post_data call a fetch_pcr_volume call is
                \* compared with: its events, how it ended, what it returned

vars == <<env, totpValid, srvDefault, faultsLeft, faulted, pc, caller, ret, api_obj,
          ei, xi, di, df, all_data, file, frame, lastIssued, lastLogin,
          loginReqs, dataReqs, pauses, writes, calls, results, callLog, twin>>

\* no call has been recorded for comparison
NoTwin == [recorded |-> FALSE, log |-> <<>>, end |-> "", df |-> <<>>,
          datatype |-> "", expirytype |-> "", endpoint |-> ""]

NoFile == [exists |-> FALSE, rows |-> <<>>]
NoLogin == [kind |-> "none", code |-> 0, json |-> FALSE, status |-> FALSE, token |-> 0]
NoFrame == [fn |-> "none", endpoint |-> "", datatype |-> "", expirytype |-> "",
            retries |-> 0, delay |-> 0, attempt |-> 0, api_obj |-> 0, auth |-> 0]

\* pd.DataFrame(): no rows
EmptyFrame == <<>>

NoResp == [kind |-> "none", code |-> 0, json |-> FALSE, status |-> FALSE, n |-> -1]

\* one entry of callLog.  e: "req" (resp = what the data request met, tok =
\* the bearer token it carried), "sleep" (secs), "auth" (initialize_api
\* entered), "login" (tok = the token of the session returned, 0 = none)
Event(e, tok, secs, resp) == [e |-> e, tok |-> tok, secs |-> secs, resp |-> resp]

(* ---------------------------- initialize_api --------------------------- *)
\* mutant of InitializeApi_Validate: any(...) in place of all(...)
InitializeApi_Validate_Any ==
    /\ pc = "init_validate"
    /\ pc' = IF \E c \in Credentials : env[c] THEN "init_totp" ELSE "exited"
    /\ callLog' = IF caller = "fetch" THEN Append(callLog, Event("auth", 0, 0, NoResp)) ELSE callLog
    /\ UNCHANGED <<env, twin, totpValid, srvDefault, faultsLeft, faulted, caller, ret, api_obj,
                   ei, xi, di, df, all_data, file, frame, lastIssued, lastLogin, loginReqs,
                   dataReqs, pauses, writes, calls, results>>

\* if not all([api_key, user_name, mpin, totp_secret]): exit()
InitializeApi_Validate ==
    /\ pc = "init_validate"
    /\ pc' = IF \A c \in Credentials : env[c] THEN "init_totp" ELSE "exited"
    /\ callLog' = IF caller = "fetch" THEN Append(callLog, Event("auth", 0, 0, NoResp)) ELSE callLog
    /\ UNCHANGED <<env, twin, totpValid, srvDefault, faultsLeft, faulted, caller, ret, api_obj,
                   ei, xi, di, df, all_data, file, frame, lastIssued, lastLogin, loginReqs,
                   dataReqs, pauses, writes, calls, results>>

\* try: totp = pyotp.TOTP(totp_secret).now()  except Exception: exit()
InitializeApi_Totp ==
    /\ pc = "init_totp"
    /\ pc' = IF totpValid THEN "init_login" ELSE "exited"
    /\ UNCHANGED <<env, twin, totpValid, srvDefault, faultsLeft, faulted, caller, ret, api_obj,
                   ei, xi, di, df, all_data, file, frame, lastIssued, lastLogin, loginReqs,
                   dataReqs, pauses, writes, calls, results, callLog>>

\* mutant of LoginOk: the token's presence is not tested
LoginOk_StatusOnly(r) ==
    /\ r.kind = "resp"
    /\ r.code < 400
    /\ r.json
    /\ r.status

\* data.get('status') and data.get('data', {}).get('jwtToken'), reached only
\* when requests.post, raise_for_status and response.json() did not raise
LoginOk(r) ==
    /\ r.kind = "resp"
    /\ r.code < 400
    /\ r.json
    /\ r.status
    /\ r.token # 0

\* mutant of LoginToken: another field of the response is stored
LoginToken_WrongField(r) == r.code

\* obj.access_token = data['data']['jwtToken']; return obj
LoginToken(r) == r.token

\* mutant of InitializeApi_Login: a failed login returns no session to the
\* caller instead of ending the process
InitializeApi_Login_ReturnsNone ==
    /\ pc = "init_login"
    /\ \E r \in LoginResponses(loginReqs + 1) :
         /\ loginReqs' = loginReqs + 1
         /\ lastLogin' = r
         /\ ret' = IF LoginOk(r) THEN LoginToken(r) ELSE 0
         /\ lastIssued' = IF LoginOk(r) THEN r.token ELSE lastIssued
         /\ pc' = IF caller = "main"
                  THEN (IF LoginOk(r) THEN "main_bind" ELSE "exited")
                  ELSE "fetch_rebind"
         /\ callLog' = IF caller = "fetch"
                       THEN Append(callLog, Event("login", IF LoginOk(r) THEN LoginToken(r) ELSE 0,
                                                  0, NoResp))
                       ELSE callLog
    /\ UNCHANGED <<env, twin, totpValid, srvDefault, faultsLeft, faulted, caller, api_obj,
                   ei, xi, di, df, all_data, file, frame,
                   dataReqs, pauses, writes, calls, results>>

\* try: requests.post(...) ... return obj / exit()   except Exception: exit()
InitializeApi_Login ==
    /\ pc = "init_login"
    /\ \E r \in LoginResponses(loginReqs + 1) :
         /\ loginReqs' = loginReqs + 1
         /\ lastLogin' = r
         /\ IF LoginOk(r)
            THEN /\ ret' = LoginToken(r)
                 /\ lastIssued' = r.token
                 /\ pc' = IF caller = "main" THEN "main_bind" ELSE "fetch_rebind"
            ELSE /\ ret' = 0
                 /\ lastIssued' = lastIssued
                 /\ pc' = "exited"
         /\ callLog' = IF caller = "fetch"
                       THEN Append(callLog, Event("login", IF LoginOk(r) THEN LoginToken(r) ELSE 0,
                                               0, NoResp))
                       ELSE callLog
    /\ UNCHANGED <<env, twin, totpValid, srvDefault, faultsLeft, faulted, caller, api_obj,
                   ei, xi, di, df, all_data, file, frame,
                   dataReqs, pauses, writes, calls, results>>

(* ------------------------------ fetchers ------------------------------- *)
\* mutant of TagRows: the datatype and expirytype labels are swapped
TagRows_Swapped(n, datatype, expirytype, endpoint) ==
    [i \in 1..n |-> [rec |-> i, DataType |-> expirytype,
                     ExpiryType |-> datatype, Endpoint |-> endpoint]]

\* df = pd.DataFrame(data["data"]); df['DataType'] = datatype;
\* df['ExpiryType'] = expirytype; df['Endpoint'] = endpoint
TagRows(n, datatype, expirytype, endpoint) ==
    [i \in 1..n |-> [rec |-> i, DataType |-> datatype,
                     ExpiryType |-> expirytype, Endpoint |-> endpoint]]

\* The environment's answer to one data request: the server's default, or
\* any other answer in a call that has deviated already or while the run's
\* budget of deviating calls lasts.
Answers(r) ==
    \/ /\ r = DefaultResponse(srvDefault)
       /\ UNCHANGED <<faultsLeft, faulted>>
    \/ /\ r # DefaultResponse(srvDefault)
       /\ faulted
       /\ UNCHANGED <<faultsLeft, faulted>>
    \/ /\ r # DefaultResponse(srvDefault)
       /\ ~faulted
       /\ faultsLeft > 0
       /\ faultsLeft' = faultsLeft - 1
       /\ faulted' = TRUE

\* mutant of PostOutcome: an empty or missing data array is retried like an
\* HTTP error
PostOutcome_RetryEmpty(r) ==
    IF r.kind = "exc" THEN "exc"
    ELSE IF r.code >= 400
         THEN IF r.code = 403 /\ ~r.json THEN "crash" ELSE "http"
         ELSE IF ~r.json THEN "exc"
              ELSE IF r.status /\ r.n >= 1 THEN "rows" ELSE "http"

\* mutant of PostOutcome: a non-empty data array counts whatever the status flag
PostOutcome_IgnoresStatus(r) ==
    IF r.kind = "exc" THEN "exc"
    ELSE IF r.code >= 400
         THEN IF r.code = 403 /\ ~r.json THEN "crash" ELSE "http"
         ELSE IF ~r.json THEN "exc"
              ELSE IF r.n >= 1 THEN "rows" ELSE "nodata"

\* mutant of PostOutcome: every exception is retried like an HTTP error
PostOutcome_RetryException(r) ==
    IF r.kind = "exc" THEN "http"
    ELSE IF r.code >= 400
         THEN IF r.code = 403 /\ ~r.json THEN "crash" ELSE "http"
         ELSE IF ~r.json THEN "http"
              ELSE IF r.status /\ r.n >= 1 THEN "rows" ELSE "nodata"

\* Which branch of fetch_post_data's try/except one request takes:
\*   "exc"   requests.post raised, or response.json() raised on a 2xx body
\*           (except Exception: return pd.DataFrame())
\*   "crash" raise_for_status raised HTTPError, status_code == 403 and
\*           response.json() raises inside the handler: nothing catches it
\*   "http"  raise_for_status raised HTTPError, handler completes
\*   "rows"  data.get("status") and "data" in data and data["data"]
\*   "nodata" the else branch
PostOutcome(r) ==
    IF r.kind = "exc" THEN "exc"
    ELSE IF r.code >= 400
         THEN IF r.code = 403 /\ ~r.json THEN "crash" ELSE "http"
         ELSE IF ~r.json THEN "exc"
              ELSE IF r.status /\ r.n >= 1 THEN "rows" ELSE "nodata"

\* one iteration of  for attempt in range(retries + 1):  of fetch_post_data
FetchPostData_Request ==
    /\ pc = "fetch_req"
    /\ frame.fn = "post"
    /\ \E r \in DataResponses :
         /\ Answers(r)
         /\ dataReqs' = dataReqs + 1
         /\ callLog' = Append(callLog, Event("req", frame.auth, 0, r))
         /\ CASE PostOutcome(r) = "rows" ->
                   /\ df' = TagRows(r.n, frame.datatype, frame.expirytype, frame.endpoint)
                   /\ results' = Append(results, r.n)
                   /\ frame' = NoFrame
                   /\ pc' = "main_collect"
              [] PostOutcome(r) \in {"nodata", "exc"} ->
                   /\ df' = EmptyFrame
                   /\ results' = Append(results, 0)
                   /\ frame' = NoFrame
                   /\ pc' = "main_collect"
              [] PostOutcome(r) = "crash" ->
                   /\ pc' = "crashed"
                   /\ UNCHANGED <<df, results, frame>>
              [] PostOutcome(r) = "http" /\ frame.attempt < frame.retries ->
                   /\ pc' = "fetch_sleep"
                   /\ UNCHANGED <<df, results, frame>>
              [] PostOutcome(r) = "http" /\ frame.attempt >= frame.retries ->
                   \* the loop is exhausted: "Failed to fetch ... after N attempts"
                   /\ df' = EmptyFrame
                   /\ results' = Append(results, 0)
                   /\ frame' = NoFrame
                   /\ pc' = "main_collect"
    /\ UNCHANGED <<env, twin, totpValid, srvDefault, caller, ret, api_obj, ei, xi, di,
                   all_data, file, lastIssued, lastLogin, loginReqs, pauses, writes, calls>>

\* mutant of PcrOutcome: an HTTP error is handled like any other exception,
\* an empty result at once
PcrOutcome_HttpNoRetry(r) ==
    IF r.kind = "exc" THEN "exc"
    ELSE IF r.code >= 400
         THEN IF r.code = 403 /\ ~r.json THEN "crash" ELSE "exc"
         ELSE IF ~r.json THEN "exc"
              ELSE IF r.status /\ r.n >= 1 THEN "rows" ELSE "nodata"

\* the same classification, read from fetch_pcr_volume's try/except
PcrOutcome(r) ==
    IF r.kind = "exc" THEN "exc"
    ELSE IF r.code >= 400
         THEN IF r.code = 403 /\ ~r.json THEN "crash" ELSE "http"
         ELSE IF ~r.json THEN "exc"
              ELSE IF r.status /\ r.n >= 1 THEN "rows" ELSE "nodata"

\* one iteration of  for attempt in range(retries + 1):  of fetch_pcr_volume
FetchPcrVolume_Request ==
    /\ pc = "fetch_req"
    /\ frame.fn = "pcr"
    /\ \E r \in DataResponses :
         /\ Answers(r)
         /\ dataReqs' = dataReqs + 1
         /\ callLog' = Append(callLog, Event("req", frame.auth, 0, r))
         /\ CASE PcrOutcome(r) = "rows" ->
                   /\ df' = TagRows(r.n, "PCR Volume", "N/A", "putCallRatio")
                   /\ results' = Append(results, r.n)
                   /\ frame' = NoFrame
                   /\ pc' = "pcr_collect"
              [] PcrOutcome(r) \in {"nodata", "exc"} ->
                   /\ df' = EmptyFrame
                   /\ results' = Append(results, 0)
                   /\ frame' = NoFrame
                   /\ pc' = "pcr_collect"
              [] PcrOutcome(r) = "crash" ->
                   /\ pc' = "crashed"
                   /\ UNCHANGED <<df, results, frame>>
              [] PcrOutcome(r) = "http" /\ frame.attempt < frame.retries ->
                   /\ pc' = "fetch_sleep"
                   /\ UNCHANGED <<df, results, frame>>
              [] PcrOutcome(r) = "http" /\ frame.attempt >= frame.retries ->
                   /\ df' = EmptyFrame
                   /\ results' = Append(results, 0)
                   /\ frame' = NoFrame
                   /\ pc' = "pcr_collect"
    /\ UNCHANGED <<env, twin, totpValid, srvDefault, caller, ret, api_obj, ei, xi, di,
                   all_data, file, lastIssued, lastLogin, loginReqs, pauses, writes, calls>>

\* mutant of Fetch_Sleep: the retry goes on without re-authenticating
Fetch_Sleep_NoReauth ==
    /\ pc = "fetch_sleep"
    /\ callLog' = Append(callLog, Event("sleep", 0, frame.delay, NoResp))
    /\ frame' = [frame EXCEPT !.attempt = @ + 1]
    /\ pc' = "fetch_req"
    /\ UNCHANGED <<env, twin, totpValid, srvDefault, faultsLeft, faulted, caller, ret, api_obj,
                   ei, xi, di, df, all_data, file, lastIssued, lastLogin, loginReqs,
                   dataReqs, pauses, writes, calls, results>>

\* if attempt < retries: time.sleep(delay); api_obj = initialize_api()
\* (the call; its return is Fetch_Rebind)
Fetch_Sleep ==
    /\ pc = "fetch_sleep"
    /\ callLog' = Append(callLog, Event("sleep", 0, frame.delay, NoResp))
    /\ caller' = "fetch"
    /\ pc' = "init_validate"
    /\ UNCHANGED <<env, twin, totpValid, srvDefault, faultsLeft, faulted, ret, api_obj, ei, xi, di,
                   df, all_data, file, frame, lastIssued, lastLogin, loginReqs, dataReqs,
                   pauses, writes, calls, results>>

\* mutant of Fetch_Rebind: the new session is bound but the Authorization
\* header keeps the old token
Fetch_Rebind_KeepsHeader ==
    /\ pc = "fetch_rebind"
    /\ frame' = [frame EXCEPT !.api_obj = ret, !.attempt = @ + 1]
    /\ ret' = 0
    /\ pc' = "fetch_req"
    /\ UNCHANGED <<env, twin, totpValid, srvDefault, faultsLeft, faulted, caller, api_obj, ei, xi, di,
                   df, all_data, file, lastIssued, lastLogin, loginReqs, dataReqs,
                   pauses, writes, calls, results, callLog>>

\* api_obj = <returned obj>; headers["Authorization"] = f"Bearer {api_obj.access_token}"
\* then the next iteration of the for loop
Fetch_Rebind ==
    /\ pc = "fetch_rebind"
    /\ frame' = [frame EXCEPT !.api_obj = ret, !.auth = ret, !.attempt = @ + 1]
    /\ ret' = 0
    /\ pc' = "fetch_req"
    /\ UNCHANGED <<env, twin, totpValid, srvDefault, faultsLeft, faulted, caller, api_obj, ei, xi, di,
                   df, all_data, file, lastIssued, lastLogin, loginReqs, dataReqs,
                   pauses, writes, calls, results, callLog>>

(* ------------------------------ __main__ ------------------------------- *)
\* api_obj = initialize_api()   (the call)
Main_Start ==
    /\ pc = "main_start"
    /\ caller' = "main"
    /\ pc' = "init_validate"
    /\ UNCHANGED <<env, twin, totpValid, srvDefault, faultsLeft, faulted, ret, api_obj, ei, xi, di,
                   df, all_data, file, frame, lastIssued, lastLogin, loginReqs,
                   dataReqs, pauses, writes, calls, results, callLog>>

\* api_obj = <returned obj>; all_data = []; the three for loops start
Main_Bind ==
    /\ pc = "main_bind"
    /\ api_obj' = ret
    /\ ret' = 0
    /\ all_data' = <<>>
    /\ ei' = 1
    /\ xi' = 1
    /\ di' = 1
    /\ pc' = "main_post"
    /\ UNCHANGED <<env, twin, totpValid, srvDefault, faultsLeft, faulted, caller, df, file, frame,
                   lastIssued, lastLogin, loginReqs, dataReqs, pauses, writes,
                   calls, results, callLog>>

\* the locals of fetch_post_data / fetch_pcr_volume on entry: headers carry
\* f"Bearer {api_obj.access_token}" of the session passed in
NewFrame(fn, session, endpoint, datatype, expirytype, retries, delay) ==
    [fn |-> fn, endpoint |-> endpoint, datatype |-> datatype,
     expirytype |-> expirytype, retries |-> retries, delay |-> delay,
     attempt |-> 0, api_obj |-> session, auth |-> session]

\* history entry of one fetcher invocation
Call(fn, session, endpoint, datatype, expirytype, retries) ==
    [fn |-> fn, endpoint |-> endpoint, datatype |-> datatype,
     expirytype |-> expirytype, session |-> session, retries |-> retries]

\* df = fetch_post_data(api_obj, endpoint, datatype, expirytype=expiry)  (the call)
Main_CallPost ==
    /\ pc = "main_post"
    /\ LET endpoint == endpoints[ei]
           expiry == expiry_types[xi]
           datatype == data_types(endpoint)[di]
       IN /\ frame' = NewFrame("post", api_obj, endpoint, datatype, expiry,
                               DefaultRetries, DefaultDelay)
          /\ calls' = Append(calls, Call("post", api_obj, endpoint, datatype, expiry,
                                             DefaultRetries))
    /\ callLog' = <<>>
    /\ faulted' = FALSE
    /\ pc' = "fetch_req"
    /\ UNCHANGED <<env, twin, totpValid, srvDefault, faultsLeft, caller, ret, api_obj,
                   ei, xi, di, df, all_data, file, lastIssued, lastLogin, loginReqs,
                   dataReqs, pauses, writes, results>>

\* pd.concat(all_data, ignore_index=True): the rows of the frames, in order
RECURSIVE Concat(_)
Concat(frames) ==
    IF frames = <<>> THEN <<>> ELSE Head(frames) \o Concat(Tail(frames))

\* mutant of Main_Collect: the file is rewritten after every call that
\* brought data
Main_Collect_Incremental ==
    /\ pc = "main_collect"
    /\ all_data' = IF df # EmptyFrame THEN Append(all_data, df) ELSE all_data
    /\ IF df # EmptyFrame
       THEN /\ file' = [exists |-> TRUE, rows |-> Concat(all_data')]
            /\ writes' = writes + 1
       ELSE UNCHANGED <<file, writes>>
    /\ pauses' = pauses + PauseSecs
    /\ IF di < Len(data_types(endpoints[ei]))
       THEN /\ di' = di + 1
            /\ UNCHANGED <<xi, ei>>
            /\ pc' = "main_post"
       ELSE IF xi < Len(expiry_types)
            THEN /\ di' = 1
                 /\ xi' = xi + 1
                 /\ UNCHANGED ei
                 /\ pc' = "main_post"
            ELSE IF ei < Len(endpoints)
                 THEN /\ di' = 1
                      /\ xi' = 1
                      /\ ei' = ei + 1
                      /\ pc' = "main_post"
                 ELSE /\ UNCHANGED <<di, xi, ei>>
                      /\ pc' = "main_pcr"
    /\ callLog' = <<>>
    /\ UNCHANGED <<env, twin, totpValid, srvDefault, faultsLeft, faulted, caller, ret, api_obj,
                   df, frame, lastIssued, lastLogin, loginReqs,
                   dataReqs, calls, results>>

\* mutant of Main_Collect: the pause is taken only in the else branch, after
\* an empty result
Main_Collect_PauseIfEmpty ==
    /\ pc = "main_collect"
    /\ all_data' = IF df # EmptyFrame THEN Append(all_data, df) ELSE all_data
    /\ pauses' = IF df = EmptyFrame THEN pauses + PauseSecs ELSE pauses
    /\ IF di < Len(data_types(endpoints[ei]))
       THEN /\ di' = di + 1
            /\ UNCHANGED <<xi, ei>>
            /\ pc' = "main_post"
       ELSE IF xi < Len(expiry_types)
            THEN /\ di' = 1
                 /\ xi' = xi + 1
                 /\ UNCHANGED ei
                 /\ pc' = "main_post"
            ELSE IF ei < Len(endpoints)
                 THEN /\ di' = 1
                      /\ xi' = 1
                      /\ ei' = ei + 1
                      /\ pc' = "main_post"
                 ELSE /\ UNCHANGED <<di, xi, ei>>
                      /\ pc' = "main_pcr"
    /\ callLog' = <<>>
    /\ UNCHANGED <<env, twin, totpValid, srvDefault, faultsLeft, faulted, caller, ret, api_obj,
                   df, file, frame, lastIssued, lastLogin, loginReqs,
                   dataReqs, writes, calls, results>>

\* mutant of Main_Collect: the datatype loop encloses the expiry loop
Main_Collect_ExpiryInner ==
    /\ pc = "main_collect"
    /\ all_data' = IF df # EmptyFrame THEN Append(all_data, df) ELSE all_data
    /\ pauses' = pauses + PauseSecs
    /\ IF xi < Len(expiry_types)
       THEN /\ xi' = xi + 1
            /\ UNCHANGED <<di, ei>>
            /\ pc' = "main_post"
       ELSE IF di < Len(data_types(endpoints[ei]))
            THEN /\ xi' = 1
                 /\ di' = di + 1
                 /\ UNCHANGED ei
                 /\ pc' = "main_post"
            ELSE IF ei < Len(endpoints)
                 THEN /\ di' = 1
                      /\ xi' = 1
                      /\ ei' = ei + 1
                      /\ pc' = "main_post"
                 ELSE /\ UNCHANGED <<di, xi, ei>>
                      /\ pc' = "main_pcr"
    /\ callLog' = <<>>
    /\ UNCHANGED <<env, twin, totpValid, srvDefault, faultsLeft, faulted, caller, ret, api_obj,
                   df, file, frame, lastIssued, lastLogin, loginReqs,
                   dataReqs, writes, calls, results>>

\* if not df.empty: all_data.append(df)
\* time.sleep(1), then the next iteration of
\* for endpoint ...: for expiry ...: for datatype ...
Main_Collect ==
    /\ pc = "main_collect"
    /\ all_data' = IF df # EmptyFrame THEN Append(all_data, df) ELSE all_data
    /\ pauses' = pauses + PauseSecs
    /\ IF di < Len(data_types(endpoints[ei]))
       THEN /\ di' = di + 1
            /\ UNCHANGED <<xi, ei>>
            /\ pc' = "main_post"
       ELSE IF xi < Len(expiry_types)
            THEN /\ di' = 1
                 /\ xi' = xi + 1
                 /\ UNCHANGED ei
                 /\ pc' = "main_post"
            ELSE IF ei < Len(endpoints)
                 THEN /\ di' = 1
                      /\ xi' = 1
                      /\ ei' = ei + 1
                      /\ pc' = "main_post"
                 ELSE /\ UNCHANGED <<di, xi, ei>>
                      /\ pc' = "main_pcr"
    /\ callLog' = <<>>
    /\ UNCHANGED <<env, twin, totpValid, srvDefault, faultsLeft, faulted, caller, ret, api_obj,
                   df, file, frame, lastIssued, lastLogin, loginReqs,
                   dataReqs, writes, calls, results>>

\* df = fetch_pcr_volume(api_obj)  (the call)
Main_CallPcr ==
    /\ pc = "main_pcr"
    /\ frame' = NewFrame("pcr", api_obj, "putCallRatio", "PCR Volume", "N/A",
                         DefaultRetries, DefaultDelay)
    /\ calls' = Append(calls, Call("pcr", api_obj, "putCallRatio", "PCR Volume", "N/A",
                                  DefaultRetries))
    /\ callLog' = <<>>
    /\ faulted' = FALSE
    /\ pc' = "fetch_req"
    /\ UNCHANGED <<env, twin, totpValid, srvDefault, faultsLeft, caller, ret, api_obj,
                   ei, xi, di, df, all_data, file, lastIssued, lastLogin, loginReqs,
                   dataReqs, pauses, writes, results>>

\* if not df.empty: all_data.append(df); time.sleep(1)   (after fetch_pcr_volume)
Main_CollectPcr ==
    /\ pc = "pcr_collect"
    /\ all_data' = IF df # EmptyFrame THEN Append(all_data, df) ELSE all_data
    /\ pauses' = pauses + PauseSecs
    /\ pc' = "main_save"
    /\ callLog' = <<>>
    /\ UNCHANGED <<env, twin, totpValid, srvDefault, faultsLeft, faulted, caller, ret, api_obj,
                   ei, xi, di, df, file, frame, lastIssued, lastLogin, loginReqs,
                   dataReqs, writes, calls, results>>

\* mutant of Main_Save: the file is written whether or not data was collected
Main_Save_Always ==
    /\ pc = "main_save"
    /\ file' = [exists |-> TRUE, rows |-> Concat(all_data)]
    /\ writes' = writes + 1
    /\ pc' = "done"
    /\ UNCHANGED <<env, twin, totpValid, srvDefault, faultsLeft, faulted, caller, ret, api_obj,
                   ei, xi, di, df, all_data, frame, lastIssued, lastLogin,
                   loginReqs, dataReqs, pauses, calls, results, callLog>>

\* if all_data: final_df = pd.concat(...); final_df.to_csv(OUTPUT_FILE)
\* else: "No data to save."
Main_Save ==
    /\ pc = "main_save"
    /\ IF all_data # <<>>
       THEN /\ file' = [exists |-> TRUE, rows |-> Concat(all_data)]
            /\ writes' = writes + 1
       ELSE UNCHANGED <<file, writes>>
    /\ pc' = "done"
    /\ UNCHANGED <<env, twin, totpValid, srvDefault, faultsLeft, faulted, caller, ret, api_obj,
                   ei, xi, di, df, all_data, frame, lastIssued, lastLogin,
                   loginReqs, dataReqs, pauses, calls, results, callLog>>

(* --------------------------- specifications ---------------------------- *)
\* the state after load_dotenv(): nothing requested, nothing written
Init ==
    /\ env \in [Credentials -> BOOLEAN]
    /\ totpValid \in BOOLEAN
    /\ totpValid => env["TOTP_SECRET"]
    /\ srvDefault \in {"rows", "empty"}
    /\ faultsLeft = MaxFaults
    /\ faulted = FALSE
    /\ pc = "main_start"
    /\ caller = "main"
    /\ ret = 0
    /\ api_obj = 0
    /\ ei = 1
    /\ xi = 1
    /\ di = 1
    /\ df = EmptyFrame
    /\ all_data = <<>>
    /\ file = NoFile
    /\ frame = NoFrame
    /\ lastIssued = 0
    /\ lastLogin = NoLogin
    /\ loginReqs = 0
    /\ dataReqs = 0
    /\ pauses = 0
    /\ writes = 0
    /\ calls = <<>>
    /\ results = <<>>
    /\ callLog = <<>>
    /\ twin = NoTwin

Next ==
    \/ Main_Start
    \/ InitializeApi_Validate
    \/ InitializeApi_Totp
    \/ InitializeApi_Login
    \/ Main_Bind
    \/ Main_CallPost
    \/ FetchPostData_Request
    \/ FetchPcrVolume_Request
    \/ Fetch_Sleep
    \/ Fetch_Rebind
    \/ Main_Collect
    \/ Main_CallPcr
    \/ Main_CollectPcr
    \/ Main_Save

Spec == Init /\ [][Next]_vars

\* A fetcher called directly, as a test calls it: a session from an earlier
\* login, any catalog arguments, any retries in 0..MaxRetries, and a server
\* that may answer every request anyhow.
InitCall ==
    /\ env \in [Credentials -> BOOLEAN]
    /\ totpValid \in BOOLEAN
    /\ totpValid => env["TOTP_SECRET"]
    /\ srvDefault = "rows"
    /\ faultsLeft = 0
    /\ faulted = TRUE
    /\ pc = "fetch_req"
    /\ caller = "fetch"
    /\ ret = 0
    /\ api_obj = 1
    /\ ei = 1
    /\ xi = 1
    /\ di = 1
    /\ df = EmptyFrame
    /\ all_data = <<>>
    /\ file = NoFile
    /\ \E retries \in 0..MaxRetries :
         \/ \E e \in 1..Len(endpoints), x \in 1..Len(expiry_types) :
              \E d \in 1..Len(data_types(endpoints[e])) :
                /\ frame = NewFrame("post", 1, endpoints[e], data_types(endpoints[e])[d],
                                    expiry_types[x], retries, DefaultDelay)
                /\ calls = <<Call("post", 1, endpoints[e], data_types(endpoints[e])[d],
                                  expiry_types[x], retries)>>
         \/ /\ frame = NewFrame("pcr", 1, "putCallRatio", "PCR Volume", "N/A",
                                 retries, DefaultDelay)
            /\ calls = <<Call("pcr", 1, "putCallRatio", "PCR Volume", "N/A", retries)>>
    /\ lastIssued = 1
    /\ lastLogin = [kind |-> "resp", code |-> 200, json |-> TRUE, status |-> TRUE,
                    token |-> 1]
    /\ loginReqs = 1
    /\ dataReqs = 0
    /\ pauses = 0
    /\ writes = 0
    /\ results = <<>>
    /\ callLog = <<>>
    /\ twin = NoTwin

NextCall ==
    \/ FetchPostData_Request
    \/ FetchPcrVolume_Request
    \/ Fetch_Sleep
    \/ InitializeApi_Validate
    \/ InitializeApi_Totp
    \/ InitializeApi_Login
    \/ Fetch_Rebind

SpecCall == InitCall /\ [][NextCall]_vars

\* fetch_post_data and fetch_pcr_volume called one after the other with the
\* same retries and delay, against a server and a login service that give the
\* second call what they gave the first.

\* the fetch_post_data call has ended (returned, exit(), uncaught exception):
\* it is recorded, and fetch_pcr_volume is called from the same starting point
Pair_CallPcr ==
    /\ ~twin.recorded
    /\ calls[1].fn = "post"
    /\ pc \in {"main_collect", "exited", "crashed"}
    /\ twin' = [recorded |-> TRUE, log |-> callLog, end |-> pc, df |-> df,
                datatype |-> calls[1].datatype, expirytype |-> calls[1].expirytype,
                endpoint |-> calls[1].endpoint]
    /\ frame' = NewFrame("pcr", 1, "putCallRatio", "PCR Volume", "N/A",
                         calls[1].retries, DefaultDelay)
    /\ calls' = <<Call("pcr", 1, "putCallRatio", "PCR Volume", "N/A", calls[1].retries)>>
    /\ pc' = "fetch_req"
    /\ caller' = "fetch"
    /\ ret' = 0
    /\ df' = EmptyFrame
    /\ lastIssued' = 1
    /\ lastLogin' = [kind |-> "resp", code |-> 200, json |-> TRUE, status |-> TRUE,
                     token |-> 1]
    /\ loginReqs' = 1
    /\ dataReqs' = 0
    /\ results' = <<>>
    /\ callLog' = <<>>
    /\ UNCHANGED <<env, totpValid, srvDefault, faultsLeft, faulted, api_obj, ei, xi, di,
                   all_data, file, pauses, writes>>

\* the positions of the events of one kind in a log, in order
RECURSIVE Positions(_, _, _)
Positions(log, kind, from) ==
    IF from > Len(log) THEN <<>>
    ELSE IF log[from].e = kind THEN <<from>> \o Positions(log, kind, from + 1)
         ELSE Positions(log, kind, from + 1)

\* the server answers the k-th data request of the second call as it
\* answered the k-th data request of the first (a request the first call
\* never made may be answered anyhow)
SameAnswer ==
    LET k == Len(Positions(callLog', "req", 1))
        first == Positions(twin.log, "req", 1)
    IN k <= Len(first) => callLog'[Len(callLog')].resp = twin.log[first[k]].resp

\* the k-th login of the second call succeeds iff the k-th login of the
\* first did
SameLogin ==
    LET k == loginReqs' - 1
        first == Positions(twin.log, "login", 1)
    IN (twin.recorded /\ k <= Len(first))
       => (LoginOk(lastLogin') <=> twin.log[first[k]].tok # 0)

\* the first call is fetch_post_data with its default expirytype
InitPair == InitCall /\ frame.fn = "post" /\ frame.expirytype = "NEAR"

NextPair ==
    \/ FetchPostData_Request
    \/ Pair_CallPcr
    \/ FetchPcrVolume_Request /\ SameAnswer
    \/ Fetch_Sleep
    \/ InitializeApi_Validate
    \/ InitializeApi_Totp
    \/ InitializeApi_Login /\ SameLogin
    \/ Fetch_Rebind

SpecPair == InitPair /\ [][NextPair]_vars

TypeOK ==
    /\ pc \in {"main_start", "init_validate", "init_totp", "init_login", "main_bind",
               "main_post", "fetch_req", "fetch_sleep", "fetch_rebind", "main_collect",
               "main_pcr", "pcr_collect", "main_save",
               "done", "exited", "crashed"}
    /\ api_obj \in 0..1
    /\ faultsLeft \in 0..MaxFaults

(* ------------------- vocabulary of the properties ---------------------- *)
\* facts about what a data request met, stated on the response itself
IsHttpError(r) == r.kind = "resp" /\ r.code >= 400
IsData(r) == r.kind = "resp" /\ r.code < 400 /\ r.json /\ r.status /\ r.n >= 1
IsEmptyData(r) == r.kind = "resp" /\ r.code < 400 /\ r.json /\ r.n <= 0
IsOtherException(r) == r.kind = "exc" \/ (r.kind = "resp" /\ r.code < 400 /\ ~r.json)

\* facts about what a login request met
IsGoodLogin(r) ==
    r.kind = "resp" /\ r.code < 400 /\ r.json /\ r.status /\ r.token # 0

\* positions of the events of one kind in callLog
EventIdx(kind) == {i \in DOMAIN callLog : callLog[i].e = kind}

\* the fetcher invocation callLog belongs to
CurCall == calls[Len(calls)]

\* the fetcher call of callLog has returned to its caller; df is its result
Returned == pc \in {"main_collect", "pcr_collect"}

\* the (endpoint, datatype, expiry) combinations of the fixed catalog
Catalog ==
    {<<endpoints[e], data_types(endpoints[e])[d], expiry_types[x]>> :
        e \in {1, 2}, d \in 1..4, x \in 1..3}

RECURSIVE SumSeq(_)
SumSeq(q) == IF q = <<>> THEN 0 ELSE Head(q) + SumSeq(Tail(q))

(* ------------------------------- claims -------------------------------- *)
\* C1: in fetch_post_data, when the first request meets an HTTP error and the
\* second request succeeds with a non-empty data array, the call returns a
\* non-empty row set, has made exactly two data requests, and has entered
\* initialize_api exactly once, after the first request and before the second.
C1_RetryThenData ==
    (/\ Len(calls) > 0
     /\ CurCall.fn = "post"
     /\ Cardinality(EventIdx("req")) >= 2
     /\ IsHttpError(callLog[1].resp)
     /\ \E j \in EventIdx("req") :
          /\ j > 1
          /\ \A k \in EventIdx("req") : k = 1 \/ k >= j
          /\ IsData(callLog[j].resp))
    => /\ pc = "main_collect"
       /\ df # EmptyFrame
       /\ Cardinality(EventIdx("req")) = 2
       /\ Cardinality(EventIdx("auth")) = 1
       /\ Cardinality(EventIdx("login")) = 1
       /\ \A a \in EventIdx("auth") \cup EventIdx("login") :
            /\ 1 < a
            /\ \A j \in EventIdx("req") : j = 1 \/ a < j

C1_Witness ==
    /\ pc = "main_collect"
    /\ CurCall.fn = "post"
    /\ Cardinality(EventIdx("req")) = 2
    /\ IsHttpError(callLog[1].resp)
    /\ IsData(callLog[Len(callLog)].resp)
    /\ df # EmptyFrame

\* C2 (as claimed): when a fetch_post_data call with retry count r is over,
\* every one of its data requests met an HTTP error and every
\* re-authentication succeeded, it made exactly r+1 data requests,
\* re-authenticated exactly r times, never after the last attempt, and
\* returned an empty result.
C2_AllHttpErrors ==
    (/\ Len(calls) > 0
     /\ CurCall.fn = "post"
     /\ pc \in {"main_collect", "crashed"}
     /\ \A i \in EventIdx("req") : IsHttpError(callLog[i].resp)
     /\ \A i \in EventIdx("login") : callLog[i].tok # 0)
    => /\ pc = "main_collect"
       /\ df = EmptyFrame
       /\ Cardinality(EventIdx("req")) = CurCall.retries + 1
       /\ Cardinality(EventIdx("auth")) = CurCall.retries
       /\ callLog[Len(callLog)].e = "req"

\* C3: in both fetchers a 2xx response whose data array is empty or missing
\* ends the call at once with 0 rows: no request, sleep or re-authentication
\* follows it, whatever the retry count; when it answers the call's first
\* request the call consists of exactly that one data request.
C3_EmptyDataNoRetry ==
    \A i \in EventIdx("req") :
        IsEmptyData(callLog[i].resp)
        => /\ i = Len(callLog)
           /\ Returned
           /\ df = EmptyFrame
           /\ results[Len(results)] = 0
           /\ (i = 1 => /\ Cardinality(EventIdx("req")) = 1
                        /\ EventIdx("sleep") = {}
                        /\ EventIdx("auth") = {}
                        /\ frame = NoFrame)

C3_Witness ==
    /\ Returned
    /\ Len(callLog) = 1
    /\ IsEmptyData(callLog[1].resp)
    /\ callLog[1].resp.status
    /\ CurCall.retries >= 1
    /\ df = EmptyFrame

\* C4: whenever at least one of the four credentials is absent or empty,
\* initialize_api terminates the process in its validation step: no login
\* request and no data request is ever sent.
C4_MissingCredentials ==
    (\E c \in Credentials : ~env[c])
    => /\ loginReqs = 0
       /\ dataReqs = 0
       /\ pc \in {"main_start", "init_validate", "exited"}

C4_Witness ==
    /\ pc = "exited"
    /\ ~env["MPIN"]
    /\ \A c \in Credentials \ {"MPIN"} : env[c]
    /\ loginReqs = 0

\* C5: when the initial login fails in any way (request exception, non-2xx
\* response, malformed body, status flag false, or no token), no session is
\* returned or bound, the process has terminated, no data request has been
\* sent and no output file has been written.
C5_InitialLoginFails ==
    (/\ loginReqs = 1
     /\ Len(calls) = 0
     /\ ~IsGoodLogin(lastLogin))
    => /\ pc = "exited"
       /\ ret = 0
       /\ api_obj = 0
       /\ dataReqs = 0
       /\ file = NoFile
       /\ writes = 0

C5_Witness ==
    /\ pc = "exited"
    /\ loginReqs = 1
    /\ lastLogin.kind = "resp"
    /\ lastLogin.code < 400
    /\ lastLogin.json
    /\ ~lastLogin.status
    /\ lastLogin.token # 0

\* C6: the output file is written only by a run that reached its end, and
\* such a run has written it if and only if at least one of its 25 fetch
\* calls returned a non-empty row set; the file then holds exactly the sum of
\* the row counts of all fetch results.
C6_FileIffData ==
    /\ file.exists => pc = "done"
    /\ pc = "done" =>
         /\ Len(results) = 25
         /\ file.exists <=> (\E k \in DOMAIN results : results[k] > 0)
         /\ file.exists => Len(file.rows) = SumSeq(results)
         /\ (\A k \in DOMAIN results : results[k] = 1) =>
                (file.exists /\ Len(file.rows) = 25)

C6_Witness ==
    /\ pc = "done"
    /\ file.exists
    /\ \E k \in DOMAIN results : results[k] = 0
    /\ \E k \in DOMAIN results : results[k] = MaxRows
    /\ Len(file.rows) = SumSeq(results)

\* C7 (as claimed): a run that has ended, whose login succeeded and in which
\* no re-authentication failed, has invoked fetch_post_data exactly 24 times,
\* once for each combination of the catalog, and then fetch_pcr_volume once.
C7_AllCallsMade ==
    (/\ pc \in {"done", "crashed"}
     /\ api_obj # 0)
    => /\ Len(calls) = 25
       /\ Cardinality(Catalog) = 24
       /\ \A k \in 1..24 : calls[k].fn = "post"
       /\ {<<calls[k].endpoint, calls[k].datatype, calls[k].expirytype>> :
               k \in 1..24} = Catalog
       /\ calls[25].fn = "pcr"

\* C8: when a fetch_post_data request succeeds with status true and a data
\* array of N >= 1 records, the call returns at once a row set of exactly N
\* rows, each carrying the DataType, ExpiryType and Endpoint arguments of the
\* call, on the first attempt as on a retry.
C8_RowsTagged ==
    \A i \in EventIdx("req") :
        (CurCall.fn = "post" /\ IsData(callLog[i].resp))
        => /\ i = Len(callLog)
           /\ pc = "main_collect"
           /\ Len(df) = callLog[i].resp.n
           /\ results[Len(results)] = callLog[i].resp.n
           /\ \A k \in DOMAIN df :
                /\ df[k].DataType = CurCall.datatype
                /\ df[k].ExpiryType = CurCall.expirytype
                /\ df[k].Endpoint = CurCall.endpoint

C8_Witness ==
    /\ pc = "main_collect"
    /\ CurCall.fn = "post"
    /\ Cardinality(EventIdx("req")) = 3
    /\ IsData(callLog[Len(callLog)].resp)
    /\ Len(df) = MaxRows
    /\ df[MaxRows].DataType = "Short Covering"
    /\ df[MaxRows].ExpiryType = "FAR"
    /\ df[MaxRows].Endpoint = "OIBuildup"

\* C9: when a login response has status true and carries a token,
\* initialize_api returns a session, and the session it returns - the one
\* __main__ binds, and the one a fetcher rebinds on a retry - holds exactly
\* the token of that response.
C9_SessionToken ==
    /\ (loginReqs >= 1 /\ IsGoodLogin(lastLogin)) => pc # "exited"
    /\ pc \in {"main_bind", "fetch_rebind"} =>
         /\ IsGoodLogin(lastLogin)
         /\ ret = lastLogin.token
    /\ (pc = "main_post" /\ Len(calls) = 0) => api_obj = lastLogin.token
    /\ (pc = "fetch_req" /\ frame.attempt > 0) =>
         /\ frame.api_obj = lastLogin.token
         /\ frame.auth = lastLogin.token

C9_Witness ==
    /\ pc = "fetch_req"
    /\ frame.attempt = 1
    /\ lastLogin.token = 2
    /\ frame.api_obj = 2
    /\ api_obj = 1

\* C10: a data request that raises an exception other than an HTTP error (a
\* connection failure, an unparsable 2xx body) ends the fetch call at once
\* with an empty result - no further request, sleep or re-authentication -
\* and the orchestrator goes on to the next fetch call (to the save step
\* after the last one), collecting nothing for this call.
C10_ExceptionState ==
    \A i \in EventIdx("req") :
        IsOtherException(callLog[i].resp)
        => /\ i = Len(callLog)
           /\ Returned
           /\ df = EmptyFrame
           /\ results[Len(results)] = 0

C10_ExceptionStep ==
    (/\ Returned
     /\ Len(callLog) > 0
     /\ IsOtherException(callLog[Len(callLog)].resp))
    => /\ all_data' = all_data
       /\ pc = "main_collect" => pc' \in {"main_post", "main_pcr"}
       /\ pc = "pcr_collect" => pc' = "main_save"

\* C10: the state part and the step part together: the exception ends the
\* call with an empty result, and the orchestrator's next step moves on.
C10_OtherException == []C10_ExceptionState /\ [][C10_ExceptionStep]_vars

C10_Witness ==
    /\ pc = "main_collect"
    /\ Len(calls) = 7
    /\ callLog[Len(callLog)].resp.kind = "exc"
    /\ Cardinality(EventIdx("req")) = 2
    /\ df = EmptyFrame

\* C11 (as claimed): the session is rebound for the whole run: the first
\* request of every fetch call carries the most recently issued token, also
\* after an earlier fetch call has re-authenticated.
C11_SessionRebound ==
    (pc = "fetch_req" /\ frame.attempt = 0) => frame.auth = lastIssued

\* C13 (as claimed): a fetch invocation ends by returning a row set or by the
\* process terminating in a failed re-authentication; a data request answered
\* with an HTTP error, a 403 with any body included, never aborts the run.
C13_NoAbortOnHttpError ==
    /\ pc # "crashed"
    /\ (pc = "exited" /\ Len(calls) > 0) =>
         /\ Len(callLog) > 0
         /\ callLog[Len(callLog)].e \in {"auth", "login"}
         /\ callLog[Len(callLog)].tok = 0
    /\ \A i \in EventIdx("req") :
         (IsHttpError(callLog[i].resp) /\ i = Len(callLog))
         => \/ pc = "fetch_sleep"
            \/ Returned /\ df = EmptyFrame

\* C14: when a re-authentication inside a fetch call fails, the process has
\* terminated: that fetch call has not returned a result, no file has been
\* written even when earlier calls had collected data, and nothing more
\* happens - no data request, no login, no write.
C14_ReauthFailureState ==
    /\ \A i \in EventIdx("login") :
         callLog[i].tok = 0 => (i = Len(callLog) /\ pc = "exited")
    /\ (pc = "exited" /\ Len(calls) > 0)
       => /\ Len(results) = Len(calls) - 1
          /\ frame # NoFrame
          /\ ~file.exists
          /\ writes = 0
          /\ callLog[Len(callLog)].e \in {"auth", "login"}
          /\ callLog[Len(callLog)].tok = 0

C14_ReauthFailureStep ==
    pc = "exited"
    => /\ pc' = "exited"
       /\ dataReqs' = dataReqs
       /\ loginReqs' = loginReqs
       /\ results' = results
       /\ file' = file

\* C14: the state part and the step part together.
C14_ReauthFailureFatal == []C14_ReauthFailureState /\ [][C14_ReauthFailureStep]_vars

C14_Witness ==
    /\ pc = "exited"
    /\ Len(calls) = 3
    /\ Len(all_data) = 2
    /\ callLog[Len(callLog)].e = "login"
    /\ lastLogin.kind = "exc"
    /\ Cardinality(EventIdx("req")) = 2
    /\ ~file.exists

\* C15: within one fetch call, every data request after the first comes
\* directly after a successful re-authentication and carries the token that
\* re-authentication issued, a token no earlier request of the call carried;
\* every successful re-authentication is directly followed by one data request
\* of the call (the call does not return in between); and the sleep comes
\* before the re-authentication: request with HTTP error, sleep of the delay,
\* entry into initialize_api, login, next request.
C15_RetryUsesFreshSession ==
    /\ \A j \in EventIdx("req") :
         j > 1 => /\ callLog[j-1].e = "login"
                  /\ callLog[j-1].tok # 0
                  /\ callLog[j].tok = callLog[j-1].tok
                  /\ \A i \in EventIdx("req") : i < j => callLog[i].tok # callLog[j].tok
    /\ \A i \in EventIdx("login") :
         /\ i >= 4
         /\ callLog[i-1].e = "auth"
         /\ callLog[i-2].e = "sleep"
         /\ callLog[i-2].secs = DefaultDelay
         /\ callLog[i-3].e = "req"
         /\ IsHttpError(callLog[i-3].resp)
         /\ callLog[i].tok # 0 =>
              IF i = Len(callLog)
              THEN pc \in {"fetch_rebind", "fetch_req"}
              ELSE callLog[i+1].e = "req"
    /\ \A i \in EventIdx("sleep") :
         /\ callLog[i-1].e = "req"
         /\ i < Len(callLog) => callLog[i+1].e = "auth"

C15_Witness ==
    /\ Returned
    /\ Len(callLog) = 9
    /\ callLog[1].tok = 1
    /\ callLog[5].e = "req" /\ callLog[5].tok = 2
    /\ callLog[9].e = "req" /\ callLog[9].tok = 3
    /\ IsData(callLog[9].resp)
    /\ df # EmptyFrame

\* C16: the output file is written at most once per run, and when it has been
\* written all 25 fetch calls have been made and have returned: no call is
\* pending or in progress, and the run is at its end.
C16_WrittenOnceAtEnd ==
    /\ writes <= 1
    /\ file.exists <=> writes = 1
    /\ file.exists => /\ Len(calls) = 25
                      /\ Len(results) = 25
                      /\ frame = NoFrame
                      /\ pc = "done"

C16_Witness ==
    /\ file.exists
    /\ writes = 1
    /\ Len(results) = 25
    /\ \E i \in 1..25 : results[i] = 0

\* the orchestrator is between two fetch calls, or past the last one
BetweenCalls == pc \in {"main_post", "main_pcr", "main_save", "done"}

\* C17: the orchestrator pauses once, for PauseSecs, after each fetch call that
\* returned, whatever the result: while a call is in progress or has just
\* returned, every earlier call has had its pause and this one has not; when
\* the next call is about to start (or the run is over) every returned call
\* has had its pause; a completed run has paused 25 times.
C17_PauseAfterEachCall ==
    /\ BetweenCalls => /\ Len(results) = Len(calls)
                       /\ pauses = PauseSecs * Len(results)
    /\ (Len(calls) > 0 /\ ~BetweenCalls) => pauses = PauseSecs * (Len(calls) - 1)
    /\ pc = "done" => pauses = PauseSecs * 25

C17_Witness ==
    /\ pc = "done"
    /\ pauses = PauseSecs * 25
    /\ \E i, j \in 1..25 : results[i] > 0 /\ results[j] = 0
    /\ dataReqs = 24 + DefaultRetries + 1

\* C18 (as claimed): a run sends at most 75 data requests and at most 51 login
\* requests, and a run that has come to rest has ended either by process
\* termination on an authentication failure or at the end of the orchestrator.
C18_BoundedRun ==
    /\ dataReqs <= (DefaultRetries + 1) * 25
    /\ loginReqs <= 1 + DefaultRetries * 25
    /\ ~(ENABLED Next) => pc \in {"done", "exited"}

\* the tags of the k-th fetch call of a run, as the claim orders them:
\* endpoint outermost, then expiry, then datatype, PCR Volume last
CallOrder(k) ==
    IF k = 25
    THEN [DataType |-> "PCR Volume", ExpiryType |-> "N/A", Endpoint |-> "putCallRatio"]
    ELSE LET endpoint == endpoints[((k - 1) \div 12) + 1]
         IN [DataType |-> data_types(endpoint)[((k - 1) % 4) + 1],
             ExpiryType |-> expiry_types[(((k - 1) % 12) \div 4) + 1],
             Endpoint |-> endpoint]

\* the frames the first k calls should have left in the aggregate
RECURSIVE ExpectedData(_)
ExpectedData(k) ==
    IF k = 0 THEN <<>>
    ELSE IF results[k] = 0 THEN ExpectedData(k - 1)
         ELSE Append(ExpectedData(k - 1),
                     [i \in 1..results[k] |-> [rec |-> i,
                                               DataType |-> CallOrder(k).DataType,
                                               ExpiryType |-> CallOrder(k).ExpiryType,
                                               Endpoint |-> CallOrder(k).Endpoint]])

\* the tags of a non-empty frame are those of the k-th call of the order
TaggedAs(rows, k) ==
    \A i \in DOMAIN rows :
        /\ rows[i].DataType = CallOrder(k).DataType
        /\ rows[i].ExpiryType = CallOrder(k).ExpiryType
        /\ rows[i].Endpoint = CallOrder(k).Endpoint

\* C19, at the end of the run: the aggregate is exactly the non-empty results
\* of the 25 calls, in the order endpoint, expiry, datatype, PCR Volume last,
\* and the file holds their rows in that order.
C19_AggregateAtEnd ==
    pc \in {"main_save", "done"}
    => /\ all_data = ExpectedData(25)
       /\ file.exists => file.rows = Concat(ExpectedData(25))

\* C19, step by step: the k-th call made is the k-th of the order; the
\* aggregate only grows at its end, by the non-empty result just returned,
\* which carries the tags of its call; an empty result leaves it as it was.
C19_AggregateStep ==
    /\ calls' # calls =>
         /\ Len(calls') = Len(calls) + 1
         /\ SubSeq(calls', 1, Len(calls)) = calls
         /\ calls'[Len(calls')].endpoint = CallOrder(Len(calls')).Endpoint
         /\ calls'[Len(calls')].expirytype = CallOrder(Len(calls')).ExpiryType
         /\ calls'[Len(calls')].datatype = CallOrder(Len(calls')).DataType
    /\ all_data' # all_data =>
         /\ Returned
         /\ df # EmptyFrame
         /\ all_data' = Append(all_data, df)
         /\ Len(df) = results[Len(results)]
         /\ TaggedAs(df, Len(results))
    /\ (Returned /\ pc' # pc) => (all_data' = all_data <=> df = EmptyFrame)

\* C19: the collected results keep the order of the calls, endpoint then
\* expiry then datatype with PCR Volume last, and an empty result never
\* displaces or reorders the others.
C19_AggregateOrder == []C19_AggregateAtEnd /\ [][C19_AggregateStep]_vars

C19_Witness ==
    /\ pc = "done"
    /\ Len(all_data) = 24
    /\ results[5] = 0
    /\ all_data[5][1].DataType = "PercOILosers"
    /\ all_data[5][1].ExpiryType = "NEXT"
    /\ all_data[24][1].DataType = "PCR Volume"
    /\ file.exists

\* a 2xx response with a JSON body whose status flag is false
IsStatusFalse(r) == r.kind = "resp" /\ r.code < 400 /\ r.json /\ ~r.status

\* C20: in both fetchers a 2xx response whose status flag is false, a
\* non-empty data array notwithstanding, ends the call at once with an empty
\* result: nothing follows it, and when it answers the call's first request
\* the call is that single request, without sleep or re-authentication.
C20_StatusFalseIsNoData ==
    \A i \in EventIdx("req") :
        IsStatusFalse(callLog[i].resp)
        => /\ i = Len(callLog)
           /\ Returned
           /\ df = EmptyFrame
           /\ results[Len(results)] = 0
           /\ (i = 1 => callLog = <<Event("req", CurCall.session, 0, callLog[1].resp)>>)

C20_Witness ==
    /\ Returned
    /\ Len(callLog) = 1
    /\ IsStatusFalse(callLog[1].resp)
    /\ callLog[1].resp.n = MaxRows
    /\ CurCall.retries >= 1
    /\ df = EmptyFrame

\* how the fetcher call of callLog stands: returned, process terminated by
\* exit(), ended by an uncaught exception, or still running
CallEnd ==
    IF Returned THEN "returned"
    ELSE IF pc \in {"exited", "crashed"} THEN pc ELSE "running"

\* C12: with the same retries and delay, the same server answers and the same
\* login outcomes, fetch_pcr_volume goes through the events fetch_post_data
\* went through - the same requests with the same tokens, the same sleeps,
\* the same re-authentications - and ends as it ended: returned, exit() or
\* uncaught exception; it returns the same rows, empty when that result was
\* empty, tagged 'PCR Volume', 'N/A', 'putCallRatio' where fetch_post_data
\* tagged its arguments.
C12_SameContract ==
    twin.recorded =>
      /\ Len(callLog) <= Len(twin.log)
      /\ \A i \in DOMAIN callLog : callLog[i] = twin.log[i]
      /\ (CallEnd = "running" /\ pc # "init_totp") => Len(callLog) < Len(twin.log)
      /\ CallEnd # "running" =>
           /\ callLog = twin.log
           /\ CallEnd = (IF twin.end = "main_collect" THEN "returned" ELSE twin.end)
           /\ CallEnd = "returned" =>
                /\ (df = EmptyFrame) <=> (twin.df = EmptyFrame)
                /\ Len(df) = Len(twin.df)
                /\ \A i \in DOMAIN df :
                     /\ df[i].rec = twin.df[i].rec
                     /\ df[i].DataType = "PCR Volume"
                     /\ df[i].ExpiryType = "N/A"
                     /\ df[i].Endpoint = "putCallRatio"
                     /\ twin.df[i].DataType = twin.datatype
                     /\ twin.df[i].ExpiryType = twin.expirytype
                     /\ twin.df[i].Endpoint = twin.endpoint

C12_Witness ==
    /\ twin.recorded
    /\ twin.endpoint = "OIBuildup"
    /\ CallEnd = "returned"
    /\ Len(callLog) = 9
    /\ callLog = twin.log
    /\ Len(df) = MaxRows
    /\ df[1].Endpoint = "putCallRatio"
    /\ twin.df[1].Endpoint = "OIBuildup"

====
